---- MODULE Spec2Model ----
(***************************************************************************)
(* Model of the warranty-lookup backend (src/main.py): the process-wide    *)
(* HTTP session with its SESSION_LOGGED_IN flag and cookie jar, the login  *)
(* protocol of login_if_needed, and the /verifica handler with its two     *)
(* portal calls, run by concurrent worker threads.                         *)
(* SpecParser drives a HiddenInputsParser on its own over bounded pages,   *)
(* and SpecAuth the pair returned by get_auth of src/auth.py over every    *)
(* sequence of authenticate calls on two session objects.                  *)
(*                                                                         *)
(* Text is modelled as a sequence of tokens (a token is a character or an  *)
(* indivisible piece of text), so that strip() and the substring test of   *)
(* the cookie check are computed rather than assumed.  JSON scalars are    *)
(* modelled by their JSON source text ("false", "0", "\"false\"", ...).    *)
(***************************************************************************)
EXTENDS Integers, Sequences, FiniteSets, TLC

(* ------------------------------ bounds -------------------------------- *)

\* longest chassis text a request carries
MaxTelaioLen == 1

\* most start tags on a page fed to the parser
MaxTags == 3

\* the worker threads that serve /verifica concurrently
Workers == {"w1", "w2"}

(* ------------------------------- text --------------------------------- *)

WhiteSpace == {" "}
Chars == WhiteSpace \cup {"V"}

\* every text over Chars of length at most n
TextsUpTo(n) == UNION {[1..k -> Chars] : k \in 0..n}

RECURSIVE LStrip(_)
LStrip(s) ==
  IF s # <<>> /\ Head(s) \in WhiteSpace THEN LStrip(Tail(s)) ELSE s

RECURSIVE RStrip(_)
RStrip(s) ==
  IF s # <<>> /\ s[Len(s)] \in WhiteSpace
  THEN RStrip(SubSeq(s, 1, Len(s) - 1))
  ELSE s

StripIdentity(s) == s

\* str.strip()
Strip(s) == RStrip(LStrip(s))

\* needle occurs in hay as a contiguous run (Python's `needle in hay`)
Contains(hay, needle) ==
  \E i \in 0..(Len(hay) - Len(needle)) :
    SubSeq(hay, i + 1, i + Len(needle)) = needle

(* ---------------------------- credentials ----------------------------- *)

EnvNames == {"FORD_USERNAME", "FORD_PASSWORD"}
EnvTexts == {<<>>, <<" ">>, <<"u">>}
\* the process environment: a variable may be unset
Environments == UNION {[D -> EnvTexts] : D \in SUBSET EnvNames}

\* os.environ.get(name, "")
EnvGet(env, name) == IF name \in DOMAIN env THEN env[name] ELSE <<>>

GetEnvCredentialsAnd(env) ==
  LET user == Strip(EnvGet(env, "FORD_USERNAME"))
      pwd  == Strip(EnvGet(env, "FORD_PASSWORD"))
  IN  IF user = <<>> /\ pwd = <<>>
      THEN [ok |-> FALSE, username |-> <<>>, password |-> <<>>]
      ELSE [ok |-> TRUE, username |-> user, password |-> pwd]

\* get_env_credentials: ok = FALSE stands for the RuntimeError
GetEnvCredentials(env) ==
  LET user == Strip(EnvGet(env, "FORD_USERNAME"))
      pwd  == Strip(EnvGet(env, "FORD_PASSWORD"))
  IN  IF user = <<>> \/ pwd = <<>>
      THEN [ok |-> FALSE, username |-> <<>>, password |-> <<>>]
      ELSE [ok |-> TRUE, username |-> user, password |-> pwd]

(* ----------------------------- cookie jar ----------------------------- *)

CookieJ  == <<"joomla_user_state">>
CookieXJ == <<"x_", "joomla_user_state">>
ValueLoggedIn  == <<"logged_in">>
ValueLoggedInX == <<"logged_in", "_x">>
ValueGuest     == <<"guest">>

CookieNames == {CookieJ, CookieXJ}
\* the values the portal may give each cookie
CookieValues(n) ==
  IF n = CookieJ THEN {ValueLoggedIn, ValueLoggedInX, ValueGuest}
  ELSE {ValueLoggedIn}

\* what one response does to the jar: nothing, set one cookie, expire one
SetCookies ==
  {[op |-> "none", name |-> CookieJ, value |-> <<>>]}
  \cup {[op |-> "set", name |-> n, value |-> v] :
          n \in {CookieJ}, v \in CookieValues(CookieJ)}
  \cup {[op |-> "set", name |-> n, value |-> v] :
          n \in {CookieXJ}, v \in CookieValues(CookieXJ)}
  \cup {[op |-> "expire", name |-> n, value |-> <<>>] : n \in CookieNames}

\* the session's jar after a response carrying sc (requests merges the
\* cookies of every HTTP response, whatever its status)
MergeCookies(jar, sc) ==
  CASE sc.op = "none" -> jar
    [] sc.op = "set" ->
         [n \in DOMAIN jar \cup {sc.name} |->
            IF n = sc.name THEN sc.value ELSE jar[n]]
    [] sc.op = "expire" -> [n \in DOMAIN jar \ {sc.name} |-> jar[n]]

\* "; ".join([f"{c.name}={c.value}" for c in SESSION.cookies])
RECURSIVE JoinCookies(_, _)
JoinCookies(jar, names) ==
  IF names = {} THEN <<>>
  ELSE LET n == CHOOSE x \in names : TRUE
           rest == JoinCookies(jar, names \ {n})
       IN  (n \o <<"=">> \o jar[n])
             \o (IF rest = <<>> THEN <<>> ELSE <<"; ">> \o rest)

CookiesStr(jar) == JoinCookies(jar, DOMAIN jar)

LoginMarker == <<"joomla_user_state", "=", "logged_in">>

\* "joomla_user_state=logged_in" in cookies_str
MarkerFound(jar) == Contains(CookiesStr(jar), LoginMarker)

(* --------------------------- hidden inputs ---------------------------- *)

\* A start tag is [tag, attrs] with attrs a sequence of <<name, value>>.
\* dict(attrs): the last pair with a given name wins
RECURSIVE AttrGet(_, _, _)
AttrGet(attrs, key, default) ==
  IF attrs = <<>> THEN default
  ELSE LET last == attrs[Len(attrs)]
       IN  IF last[1] = key THEN last[2]
           ELSE AttrGet(SubSeq(attrs, 1, Len(attrs) - 1), key, default)

NoAttr == "<none>"

\* the value HTMLParser reports for an attribute written without a value
\* (None)
NoValue == "<novalue>"

\* str.lower() on the tag names of the model
Lower(tag) == IF tag = "INPUT" THEN "input" ELSE tag

HandleStartTagKeepFirst(h, t) ==
  IF Lower(t.tag) # "input" THEN h
  ELSE IF AttrGet(t.attrs, "type", NoAttr) # "hidden" THEN h
  ELSE LET name  == AttrGet(t.attrs, "name", NoAttr)
           value == AttrGet(t.attrs, "value", "")
       IN  IF name \notin {NoAttr, NoValue, ""}
           THEN [k \in DOMAIN h \cup {name} |->
                   IF k \in DOMAIN h THEN h[k] ELSE value]
           ELSE h

\* HiddenInputsParser.handle_starttag applied to hidden_inputs h
HandleStartTag(h, t) ==
  IF Lower(t.tag) # "input" THEN h
  ELSE IF AttrGet(t.attrs, "type", NoAttr) # "hidden" THEN h
  ELSE LET name  == AttrGet(t.attrs, "name", NoAttr)
           value == AttrGet(t.attrs, "value", "")
       IN  IF name \notin {NoAttr, NoValue, ""}
           THEN [k \in DOMAIN h \cup {name} |->
                   IF k = name THEN value ELSE h[k]]
           ELSE h

EmptyDict == [k \in {} |-> ""]

\* parser.feed(html); parser.hidden_inputs
RECURSIVE HiddenInputs(_)
HiddenInputs(tags) ==
  IF tags = <<>> THEN EmptyDict
  ELSE HandleStartTag(HiddenInputs(SubSeq(tags, 1, Len(tags) - 1)),
                      tags[Len(tags)])

Tag(name, attrs) == [tag |-> name, attrs |-> attrs]

\* the start tags a page is made of
PageTags ==
  { Tag("a", << <<"href", "/">> >>),
    Tag("input", << <<"type", "hidden">>, <<"name", "t">>,
                    <<"value", "1">> >>),
    Tag("input", << <<"value", "2">>, <<"name", "t">>,
                    <<"type", "hidden">> >>),
    Tag("INPUT", << <<"type", "hidden">>, <<"name", "r">> >>),
    Tag("input", << <<"type", "hidden">>, <<"name", "r">>,
                    <<"value", NoValue>> >>),
    Tag("input", << <<"type", "text">>, <<"name", "t">>,
                    <<"value", "9">> >>),
    Tag("input", << <<"type", "HIDDEN">>, <<"name", "t">>,
                    <<"value", "8">> >>),
    Tag("input", << <<"name", "t">>, <<"value", "7">> >>),
    Tag("input", << <<"type", "hidden">>, <<"name", "">>,
                    <<"value", "3">> >>),
    Tag("input", << <<"type", "hidden">>, <<"value", "4">> >>),
    Tag("input", << <<"type", "hidden">>, <<"name", NoValue>>,
                    <<"value", "5">> >>) }

\* every page of at most n start tags
PagesUpTo(n) == UNION {[1..k -> PageTags] : k \in 0..n}

\* login pages the portal may serve
LoginPages ==
  { <<>>,
    << Tag("input", << <<"type", "hidden">>, <<"name", "return">>,
                       <<"value", "aW5kZXg">> >>),
       Tag("input", << <<"type", "text">>, <<"name", "username">> >>) >> }

\* form_data of the login POST
LoginForm(page, creds) ==
  LET hidden == HiddenInputs(page)
  IN  [k \in DOMAIN hidden \cup {"username", "password"} |->
         CASE k = "password" -> creds.password
           [] k = "username" -> creds.username
           [] OTHER -> <<hidden[k]>>]

(* -------------------------------- JSON -------------------------------- *)

\* A JSON scalar is modelled by its JSON text; Missing marks an absent key.
Missing == "<missing>"
JNull == "null"
JTrue == "true"
JFalse == "false"

\* dict.get(key) on a value read from a dict: an absent key gives None
GetOrNone(v) == IF v = Missing THEN JNull ELSE v

\* Python truthiness of a decoded JSON scalar: False, None, 0 and "" are
\* falsy, every other value (every non-empty string included) is truthy
PyTruthy(v) == v \notin {JFalse, JNull, "0", "\"\""}

\* the forms of the status field the portal may emit
StatusForms ==
  {Missing, JNull, JFalse, JTrue, "0", "\"\"", "\"false\"", "\"0\""}

EmptyObj == [k \in {} |-> JNull]

\* obj.get(key) on a decoded JSON object
ObjGet(obj, key) == IF key \in DOMAIN obj THEN obj[key] ELSE JNull

\* the messages of the errors the code raises itself
MsgNoTelaio == "Telaio mancante"
MsgNoCredentials == "FORD_USERNAME o FORD_PASSWORD non impostate su Render"
MsgLoginFailed ==
  "Login non riuscito: cookie 'joomla_user_state=logged_in' non trovato"
MsgAnagraficaRejected == "Portale anagrafica status=false"
MsgCoperturaRejected == "Portale copertura status=false"

(* ----------------------- Call A: identity lookup ----------------------- *)

\* the anti-forgery field both calls send: a fixed name with value "1"
TokenName == "619b2f60e46095f3ba7b1d334bb20bec"
TokenValue == <<"1">>

\* the hidden anti-forgery input the portal's warranty page may carry
PortalTokens ==
  {[name |-> n, value |-> TokenValue] :
     n \in {TokenName, "deadbeefdeadbeefdeadbeefdeadbeef"}}

\* form_data of chiamata_anagrafica
AnagraficaForm(telaio) ==
  [k \in {"option", "view", "task", TokenName, "jform[telaio]"} |->
     CASE k = "option" -> <<"com_fordtrucks">>
       [] k = "view" -> <<"warranty">>
       [] k = "task" -> <<"warranty.getclaimwarrantyinfo">>
       [] k = TokenName -> TokenValue
       [] OTHER -> telaio]

\* form_data of chiamata_copertura
CoperturaForm(telaio) ==
  [k \in {"option", "view", "task", "format", TokenName, "telaio"} |->
     CASE k = "option" -> <<"com_fordtrucks">>
       [] k = "view" -> <<"warranty">>
       [] k = "task" -> <<"warranty_telaio_search">>
       [] k = "format" -> <<"json">>
       [] k = TokenName -> TokenValue
       [] OTHER -> telaio]

\* the data field of the identity response
IdentityPayload ==
  [t |-> "dict", obj |-> [k \in {"targa", "telaio"} |->
                            IF k = "targa" THEN "\"AB123CD\"" ELSE "\"X1\""]]

NoPayload == [t |-> "missing", obj |-> EmptyObj]

APayloads ==
  {NoPayload, [t |-> "null", obj |-> EmptyObj],
   [t |-> "str", obj |-> EmptyObj], IdentityPayload}

\* what resp.json() meets: undecodable text, a JSON document that is not
\* an object, or an object with its status and data fields
ABodiesWide ==
  { [t |-> "notjson", status |-> Missing, data |-> NoPayload],
    [t |-> "list", status |-> Missing, data |-> NoPayload] }
  \cup {[t |-> "dict", status |-> s, data |-> IdentityPayload] :
          s \in StatusForms}
  \cup {[t |-> "dict", status |-> JTrue, data |-> d] : d \in APayloads}

\* a representative of each way the call can end
ABodiesNarrow ==
  { [t |-> "notjson", status |-> Missing, data |-> NoPayload],
    [t |-> "dict", status |-> JFalse, data |-> IdentityPayload],
    [t |-> "dict", status |-> JTrue, data |-> IdentityPayload] }

ABodies(w) == IF w THEN ABodiesWide ELSE ABodiesNarrow

NoBody == [t |-> "none", status |-> Missing, data |-> NoPayload]

IdentityKeys ==
  {"targa", "telaio", "rag_sociale", "piva_prop", "indirizzo", "paese"}

Error(msg, body) == [msg |-> msg, body |-> body]

AnagraficaOfStatusUnchecked(body) ==
  IF body.t = "notjson" THEN
    [ok |-> FALSE, err |-> Error("JSONDecodeError", NoBody)]
  ELSE IF body.t # "dict" \/ body.data.t = "str" THEN
    [ok |-> FALSE, err |-> Error("AttributeError", NoBody)]
  ELSE
    LET payload == IF body.data.t = "dict" THEN body.data.obj ELSE EmptyObj
    IN  [ok |-> TRUE,
         parsed |-> [k \in IdentityKeys |-> ObjGet(payload, k)],
         raw |-> body]

\* chiamata_anagrafica from resp.json() on: ok = FALSE carries the
\* exception that leaves the function
AnagraficaOf(body) ==
  IF body.t = "notjson" THEN
    [ok |-> FALSE, err |-> Error("JSONDecodeError", NoBody)]
  ELSE IF body.t # "dict" THEN
    [ok |-> FALSE, err |-> Error("AttributeError", NoBody)]
  ELSE IF ~PyTruthy(GetOrNone(body.status)) THEN
    [ok |-> FALSE, err |-> Error("Portale anagrafica status=false", body)]
  ELSE IF body.data.t = "str" THEN
    [ok |-> FALSE, err |-> Error("AttributeError", NoBody)]
  ELSE
    LET payload == IF body.data.t = "dict" THEN body.data.obj ELSE EmptyObj
    IN  [ok |-> TRUE,
         parsed |-> [k \in IdentityKeys |-> ObjGet(payload, k)],
         raw |-> body]

NoAnag == [ok |-> FALSE, err |-> Error("<none>", NoBody)]

(* ----------------------- Call B: coverage lookup ----------------------- *)

DetailKeys ==
  {"VIN", "WARRANTY_TYPE", "WARRANTY_TYPE_ID", "WARRANTY_START_DATE",
   "WARRANTY_END_DATE", "REGISTRATION_DATE", "DEALER_CODE", "DEALER_NAME",
   "ENTITY_NAME", "HAS_VEHICLE_SC", "HAS_OILTOP", "HAS_WEARTEAR",
   "HAS_BATTERY", "HAS_FUSESBULBS", "HAS_DPFFILTER", "HAS_UPTIME",
   "UPTIME_NAME", "ADD_IS_OILANALYSIS", "ADD_IS_VEHICLEPICKUP",
   "ADD_IS_ANNUALMOT", "SC_OTHER_DESC", "FREETOWING_START_DATE",
   "FREETOWING_END_DATE"}

\* An inner text is a sequence of tokens.  A well-formed JSON document is
\* one indivisible token (it is decoded, never cut); the texts that do not
\* decode are sequences of single characters, so that the preview
\* data_str[:200] is computed on characters.
TextNoWarranty ==
  <<"{\"Data\":{\"HAS_WARRANTY\":false,\"WARRANTY_LIST\":[]}}">>
TextWarranty ==
  <<"{\"Data\":{\"HAS_WARRANTY\":true,\"WARRANTY_LIST\":[{\"VIN\":\"X1\",\"WARRANTY_TYPE\":\"STD\"}]}}">>
TextTwoWarranties ==
  <<"{\"Data\":{\"HAS_WARRANTY\":true,\"WARRANTY_LIST\":[{\"VIN\":\"X1\"},{\"VIN\":\"X2\",\"DEALER_CODE\":\"D2\"}]}}">>
TextEmptyFirst ==
  <<"{\"Data\":{\"HAS_WARRANTY\":true,\"WARRANTY_LIST\":[{},{\"VIN\":\"X2\"}]}}">>
TextListNull == <<"{\"Data\":{\"HAS_WARRANTY\":false,\"WARRANTY_LIST\":null}}">>
TextListAbsent == <<"{\"Data\":{\"HAS_WARRANTY\":false}}">>
TextNoData == <<"{\"Result\":{}}">>
TextNumberInList ==
  <<"{\"Data\":{\"HAS_WARRANTY\":true,\"WARRANTY_LIST\":[5]}}">>
TextArray == <<"[]">>
TextBroken == <<"{", "\"", "D">>

\* the length of the preview of an undecodable inner text
PreviewLen == 200

\* an undecodable text one character longer than the preview
TextLong == [i \in 1..(PreviewLen + 1) |-> "{"]

\* data_str[:200]
Preview(s) == SubSeq(s, 1, IF Len(s) < PreviewLen THEN Len(s) ELSE PreviewLen)

\* the texts the data field of the coverage response may hold
InnerTexts ==
  {<<>>, TextBroken, TextLong, TextNoWarranty, TextWarranty,
   TextTwoWarranties, TextEmptyFirst, TextListNull, TextListAbsent,
   TextNoData, TextNumberInList, TextArray}

\* a decoded JSON value inside the inner document: an object or a scalar
Obj(o) == [t |-> "dict", obj |-> o]
Num(n) == [t |-> "num", obj |-> EmptyObj]

\* a decoded WARRANTY_LIST field: absent, null or a list of values
List(items) == [t |-> "list", items |-> items]
NoList(t) == [t |-> t, items |-> <<>>]

\* a decoded Data section: absent, or an object with its two fields
Section(has, list) ==
  [t |-> "dict", HAS_WARRANTY |-> has, WARRANTY_LIST |-> list]
NoSection == [t |-> "missing", HAS_WARRANTY |-> Missing,
              WARRANTY_LIST |-> NoList("missing")]

Vin(v) == [k \in {"VIN"} |-> v]

\* a decoded inner document: ok = FALSE stands for JSONDecodeError
Decoded(t, data) == [ok |-> TRUE, t |-> t, Data |-> data]
Undecodable == [ok |-> FALSE, t |-> "none", Data |-> NoSection]

\* json.loads(text) on a text
JsonLoads(text) ==
  CASE text = TextNoWarranty ->
         Decoded("dict", Section(JFalse, List(<<>>)))
    [] text = TextWarranty ->
         Decoded("dict",
           Section(JTrue,
             List(<< Obj([k \in {"VIN", "WARRANTY_TYPE"} |->
                            IF k = "VIN" THEN "\"X1\"" ELSE "\"STD\""]) >>)))
    [] text = TextTwoWarranties ->
         Decoded("dict",
           Section(JTrue,
             List(<< Obj(Vin("\"X1\"")),
                     Obj([k \in {"VIN", "DEALER_CODE"} |->
                            IF k = "VIN" THEN "\"X2\"" ELSE "\"D2\""]) >>)))
    [] text = TextEmptyFirst ->
         Decoded("dict",
           Section(JTrue, List(<< Obj(EmptyObj), Obj(Vin("\"X2\"")) >>)))
    [] text = TextListNull ->
         Decoded("dict", Section(JFalse, NoList("null")))
    [] text = TextListAbsent ->
         Decoded("dict", Section(JFalse, NoList("missing")))
    [] text = TextNoData -> Decoded("dict", NoSection)
    [] text = TextNumberInList ->
         Decoded("dict", Section(JTrue, List(<< Num(5) >>)))
    [] text = TextArray -> Decoded("list", NoSection)
    [] OTHER -> Undecodable

\* the data field of the coverage response: absent, null, a number or a
\* string
BPayloads ==
  {[t |-> "missing", text |-> <<>>], [t |-> "null", text |-> <<>>],
   [t |-> "num", text |-> <<>>]}
  \cup {[t |-> "str", text |-> x] : x \in InnerTexts}

NoText == [t |-> "missing", text |-> <<>>]

BBodiesWide ==
  { [t |-> "notjson", status |-> Missing, data |-> NoText],
    [t |-> "list", status |-> Missing, data |-> NoText] }
  \cup {[t |-> "dict", status |-> s,
          data |-> [t |-> "str", text |-> TextNoWarranty]] : s \in StatusForms}
  \cup {[t |-> "dict", status |-> JTrue, data |-> d] : d \in BPayloads}

BBodiesNarrow ==
  { [t |-> "notjson", status |-> Missing, data |-> NoText],
    [t |-> "dict", status |-> JFalse,
     data |-> [t |-> "str", text |-> TextNoWarranty]],
    [t |-> "dict", status |-> JTrue,
     data |-> [t |-> "str", text |-> TextNoWarranty]],
    [t |-> "dict", status |-> JTrue,
     data |-> [t |-> "str", text |-> TextBroken]] }

BBodies(w) == IF w THEN BBodiesWide ELSE BBodiesNarrow

\* Python truthiness of a decoded value in the list: an empty object is
\* falsy, a non-empty object and a non-zero number are truthy
ValueTruthy(v) ==
  CASE v.t = "dict" -> DOMAIN v.obj # {}
    [] v.t = "num" -> TRUE
    [] OTHER -> FALSE

MsgInnerUndecodable == "Impossibile decodificare JSON interno copertura"

CoperturaRecordFromLast(inner) ==
  IF inner.t # "dict" THEN
    [ok |-> FALSE, err |-> Error("AttributeError", NoBody)]
  ELSE
    LET data_section == inner.Data
        has_warranty == GetOrNone(data_section.HAS_WARRANTY)
        warranty_list == IF data_section.WARRANTY_LIST.t = "list"
                         THEN data_section.WARRANTY_LIST.items ELSE <<>>
        last == warranty_list[Len(warranty_list)]
    IN  IF warranty_list # <<>> /\ ValueTruthy(last)
        THEN IF last.t # "dict"
             THEN [ok |-> FALSE, err |-> Error("AttributeError", NoBody)]
             ELSE [ok |-> TRUE,
                   parsed |-> [k \in {"HAS_WARRANTY"} \cup DetailKeys |->
                                 IF k = "HAS_WARRANTY" THEN has_warranty
                                 ELSE ObjGet(last.obj, k)]]
        ELSE [ok |-> TRUE,
              parsed |-> [k \in {"HAS_WARRANTY"} |-> has_warranty]]

\* the coverage record built from the decoded inner document: ok = FALSE
\* carries the exception met on the way
CoperturaRecord(inner) ==
  IF inner.t # "dict" THEN
    [ok |-> FALSE, err |-> Error("AttributeError", NoBody)]
  ELSE
    LET data_section == inner.Data
        has_warranty == GetOrNone(data_section.HAS_WARRANTY)
        warranty_list == IF data_section.WARRANTY_LIST.t = "list"
                         THEN data_section.WARRANTY_LIST.items ELSE <<>>
    IN  IF warranty_list # <<>> /\ ValueTruthy(warranty_list[1])
        THEN IF warranty_list[1].t # "dict"
             THEN [ok |-> FALSE, err |-> Error("AttributeError", NoBody)]
             ELSE [ok |-> TRUE,
                   parsed |-> [k \in {"HAS_WARRANTY"} \cup DetailKeys |->
                                 IF k = "HAS_WARRANTY" THEN has_warranty
                                 ELSE ObjGet(warranty_list[1].obj, k)]]
        ELSE [ok |-> TRUE,
              parsed |-> [k \in {"HAS_WARRANTY"} |-> has_warranty]]

\* chiamata_copertura from resp.json() on
CoperturaOf(body) ==
  IF body.t = "notjson" THEN
    [ok |-> FALSE, err |-> Error("JSONDecodeError", NoBody)]
  ELSE IF body.t # "dict" THEN
    [ok |-> FALSE, err |-> Error("AttributeError", NoBody)]
  ELSE IF ~PyTruthy(GetOrNone(body.status)) THEN
    [ok |-> FALSE, err |-> Error(MsgCoperturaRejected, body)]
  ELSE IF body.data.t \notin {"missing", "str"} THEN
    [ok |-> FALSE, err |-> Error("TypeError", NoBody)]
  ELSE
    LET data_str == IF body.data.t = "missing" THEN <<>> ELSE body.data.text
        inner    == JsonLoads(data_str)
        copertura == CoperturaRecord(inner)
    IN  IF ~inner.ok
        THEN [ok |-> FALSE,
              err |-> Error(MsgInnerUndecodable,
                            [t |-> "preview", status |-> Missing,
                             data |-> [t |-> "str",
                                       text |-> Preview(data_str)]])]
        ELSE IF ~copertura.ok
        THEN [ok |-> FALSE, err |-> copertura.err]
        ELSE [ok |-> TRUE,
              parsed |-> copertura.parsed,
              raw_outer |-> body,
              raw_inner |-> inner]

(* ------------------------------- state -------------------------------- *)

VARIABLES
  SESSION_LOGGED_IN, \* the module-level flag
  cookies,           \* SESSION.cookies: cookie name -> value
  environ,           \* os.environ, fixed at process start
  pc,                \* where each worker's request handler stands
  caller,            \* which call entered login_if_needed
  req,               \* request.telaio of the request being served
  telaio,            \* the handler's local telaio
  form,              \* form_data of the POST in flight
  anag,              \* the handler's local anag
  outer,             \* chiamata_copertura's local outer
  portalToken,       \* the anti-forgery field the portal's warranty page
                     \* carries as a hidden input
  result,            \* the handler's return value
  sent,              \* the portal requests issued by the current lookup
  lastLogin,         \* the login protocol started last: "never" started,
                     \* "first" (the first one, running), "again" (a later
                     \* one, running), "failed" or "ok"
  html,              \* the start tags of the page fed to a parser
  fed,               \* how many of them the parser has handled
  hidden_inputs,     \* the parser's hidden_inputs
  logged_flag,       \* auth.py: the flag in get_auth's closure
  jars,              \* auth.py: the cookie jar of each session object
  auth_pc,           \* auth.py: where the running authenticate call stands
  auth_sess,         \* auth.py: the session passed to that call
  auth_form,         \* auth.py: form_data of its login POST
  auth_err,          \* auth.py: the message of the exception it raised
  serial             \* TRUE: requests are served one at a time and the
                     \* portal answers over the wide range of bodies;
                     \* FALSE: requests are served concurrently and the
                     \* portal answers over the narrow range

vars == <<SESSION_LOGGED_IN, cookies, environ, pc, caller, req, telaio, form,
          anag, outer, portalToken, result, sent, lastLogin, html, fed,
          hidden_inputs, logged_flag, jars, auth_pc, auth_sess, auth_form,
          auth_err, serial>>

session == <<SESSION_LOGGED_IN, cookies>>

\* a HiddenInputsParser driven on its own
parser == <<html, fed, hidden_inputs>>

\* the pair returned by auth.py's get_auth, and the calls of authenticate
auth == <<logged_flag, jars, auth_pc, auth_sess, auth_form, auth_err>>

\* the session objects authenticate may be given: the one get_auth returned
\* and another one
Sessions == {"session", "other"}

\* the /verifica process of main.py
process == <<SESSION_LOGGED_IN, cookies, environ, pc, caller, req, telaio,
             form, anag, outer, portalToken, result, sent, lastLogin, serial>>

EmptyJar == [n \in {} |-> <<>>]
NoForm == [k \in {} |-> <<>>]
NoResult == [success |-> FALSE, error |-> Error("<pending>", NoBody)]

Failure(err) == [success |-> FALSE, error |-> err]

InitProcess ==
  /\ SESSION_LOGGED_IN = FALSE
  /\ cookies = EmptyJar
  /\ environ \in Environments
  /\ pc = [p \in Workers |-> "idle"]
  /\ caller = [p \in Workers |-> "none"]
  /\ req = [p \in Workers |-> <<>>]
  /\ telaio = [p \in Workers |-> <<>>]
  /\ form = [p \in Workers |-> NoForm]
  /\ anag = [p \in Workers |-> NoAnag]
  /\ outer = [p \in Workers |-> NoBody]
  /\ portalToken \in PortalTokens
  /\ result = [p \in Workers |-> NoResult]
  /\ sent = [p \in Workers |-> <<>>]
  /\ lastLogin = "never"

\* no parser is driven on its own
ParserUnused == html = <<>> /\ fed = 0 /\ hidden_inputs = EmptyDict

\* get_auth has returned its pair and authenticate is not running
AuthIdle ==
  /\ logged_flag = FALSE
  /\ jars = [x \in Sessions |-> EmptyJar]
  /\ auth_pc = "idle"
  /\ auth_sess = "session"
  /\ auth_form = NoForm
  /\ auth_err = ""

Init == InitProcess /\ serial = FALSE /\ ParserUnused /\ AuthIdle

InitSeq == InitProcess /\ serial = TRUE /\ ParserUnused /\ AuthIdle

\* a program that called get_auth and goes on to call authenticate
InitAuth ==
  /\ InitProcess /\ serial = TRUE
  /\ portalToken = [name |-> TokenName, value |-> TokenValue]
  /\ ParserUnused
  /\ AuthIdle

\* a fresh parser about to be fed a page
InitParser ==
  /\ InitProcess /\ serial = TRUE
  /\ environ = [n \in EnvNames |-> <<"u">>]
  /\ portalToken = [name |-> TokenName, value |-> TokenValue]
  /\ html \in PagesUpTo(MaxTags)
  /\ fed = 0
  /\ hidden_inputs = EmptyDict
  /\ AuthIdle

(* ------------------------- the request handler ------------------------- *)

\* a POST /verifica request reaches worker p
Receive(p) ==
  /\ pc[p] = "idle"
  /\ serial => \A q \in Workers : pc[q] = "idle"
  /\ \E s \in TextsUpTo(MaxTelaioLen) : req' = [req EXCEPT ![p] = s]
  /\ pc' = [pc EXCEPT ![p] = "recv"]
  /\ UNCHANGED <<serial, parser, auth, portalToken, outer, session, environ,
                 caller, telaio, form, anag, result, sent, lastLogin>>

RaiseAndForgetLogin(p, err) ==
  /\ pc' = [pc EXCEPT ![p] = "done"]
  /\ result' = [result EXCEPT ![p] = Failure(err)]
  /\ caller' = [caller EXCEPT ![p] = "none"]
  /\ form' = [form EXCEPT ![p] = NoForm]
  /\ anag' = [anag EXCEPT ![p] = NoAnag]
  /\ SESSION_LOGGED_IN' = FALSE

\* the errors the code raises itself, as RuntimeError
RuntimeErrors ==
  {MsgNoCredentials, MsgLoginFailed, MsgAnagraficaRejected,
   MsgCoperturaRejected, MsgInnerUndecodable}

RaiseCaughtIfRuntimeError(p, err) ==
  /\ pc' = [pc EXCEPT ![p] =
              IF err.msg \in RuntimeErrors THEN "done" ELSE "crashed"]
  /\ result' = [result EXCEPT ![p] =
                  IF err.msg \in RuntimeErrors THEN Failure(err) ELSE @]
  /\ caller' = [caller EXCEPT ![p] = "none"]
  /\ form' = [form EXCEPT ![p] = NoForm]
  /\ anag' = [anag EXCEPT ![p] = NoAnag]
  /\ UNCHANGED SESSION_LOGGED_IN

RaiseKeepingIdentity(p, err) ==
  /\ pc' = [pc EXCEPT ![p] = "done"]
  /\ result' = [result EXCEPT ![p] =
                  IF anag[p].ok
                  THEN [success |-> FALSE, error |-> err,
                        cliente_veicolo |-> anag[p].parsed]
                  ELSE Failure(err)]
  /\ caller' = [caller EXCEPT ![p] = "none"]
  /\ form' = [form EXCEPT ![p] = NoForm]
  /\ anag' = [anag EXCEPT ![p] = NoAnag]
  /\ UNCHANGED SESSION_LOGGED_IN

\* an exception reaches the handler's except clause, which returns a
\* failure and touches nothing else
Raise(p, err) ==
  /\ pc' = [pc EXCEPT ![p] = "done"]
  /\ result' = [result EXCEPT ![p] = Failure(err)]
  /\ caller' = [caller EXCEPT ![p] = "none"]
  /\ form' = [form EXCEPT ![p] = NoForm]
  /\ anag' = [anag EXCEPT ![p] = NoAnag]
  /\ UNCHANGED SESSION_LOGGED_IN

\* verifica_garanzia up to the call of chiamata_anagrafica
VerificaStart(p) ==
  /\ pc[p] = "recv"
  /\ LET t == Strip(req[p])
     IN  /\ telaio' = [telaio EXCEPT ![p] = t]
         /\ IF t = <<>>
            THEN /\ pc' = [pc EXCEPT ![p] = "done"]
                 /\ result' = [result EXCEPT ![p] =
                                 Failure(Error(MsgNoTelaio, NoBody))]
                 /\ caller' = caller
            ELSE /\ pc' = [pc EXCEPT ![p] = "login_check"]
                 /\ caller' = [caller EXCEPT ![p] = "anagrafica"]
                 /\ result' = result
  /\ UNCHANGED <<serial, parser, auth, portalToken, outer, session, environ,
                 req, form, anag, sent, lastLogin>>

\* login_if_needed has returned: the caller issues its POST
ReturnFromLogin(p) ==
  /\ pc' = [pc EXCEPT ![p] =
              IF caller[p] = "anagrafica" THEN "callA" ELSE "callB"]
  /\ sent' = [sent EXCEPT ![p] =
                Append(@, IF caller[p] = "anagrafica" THEN "A" ELSE "B")]
  /\ form' = [form EXCEPT ![p] =
                IF caller[p] = "anagrafica" THEN AnagraficaForm(telaio[p])
                ELSE CoperturaForm(telaio[p])]
  /\ UNCHANGED <<caller, anag, result>>

LoginIfNeededNoMemo(p) ==
  /\ pc[p] = "login_check"
  /\ pc' = [pc EXCEPT ![p] = "login_get"]
  /\ sent' = [sent EXCEPT ![p] = Append(@, "GET")]
  /\ lastLogin' = (IF lastLogin = "never" THEN "first" ELSE "again")
  /\ UNCHANGED <<serial, parser, auth, portalToken, outer, session, environ,
                 req, telaio, caller, form, anag, result>>

LoginIfNeededSkippedWithoutCredentials(p) ==
  /\ pc[p] = "login_check"
  /\ IF SESSION_LOGGED_IN \/ ~GetEnvCredentials(environ).ok
     THEN /\ ReturnFromLogin(p)
          /\ UNCHANGED <<SESSION_LOGGED_IN, lastLogin>>
     ELSE /\ pc' = [pc EXCEPT ![p] = "login_get"]
          /\ sent' = [sent EXCEPT ![p] = Append(@, "GET")]
          /\ lastLogin' = (IF lastLogin = "never" THEN "first" ELSE "again")
          /\ UNCHANGED <<SESSION_LOGGED_IN, caller, form, anag, result>>
  /\ UNCHANGED <<serial, parser, auth, portalToken, outer, cookies, environ,
                 req, telaio>>

\* login_if_needed up to the GET of the login page
LoginIfNeeded(p) ==
  /\ pc[p] = "login_check"
  /\ IF SESSION_LOGGED_IN
     THEN /\ ReturnFromLogin(p)
          /\ UNCHANGED <<SESSION_LOGGED_IN, lastLogin>>
     ELSE IF ~GetEnvCredentials(environ).ok
     THEN /\ Raise(p, Error(MsgNoCredentials, NoBody))
          /\ UNCHANGED <<sent, lastLogin>>
     ELSE /\ pc' = [pc EXCEPT ![p] = "login_get"]
          /\ sent' = [sent EXCEPT ![p] = Append(@, "GET")]
          /\ lastLogin' = (IF lastLogin = "never" THEN "first" ELSE "again")
          /\ UNCHANGED <<SESSION_LOGGED_IN, caller, form, anag, result>>
  /\ UNCHANGED <<serial, parser, auth, portalToken, outer, cookies, environ,
                 req, telaio>>

\* the login protocol ends in an exception
LoginRaise(p, err) ==
  /\ Raise(p, err)
  /\ lastLogin' = "failed"

\* the GET of the login page answers; the login POST is issued
LoginGetResponse(p) ==
  /\ pc[p] = "login_get"
  /\ \/ /\ LoginRaise(p, Error("ConnectionError", NoBody))
        /\ UNCHANGED <<cookies, sent>>
     \/ \E sc \in SetCookies :
          /\ cookies' = MergeCookies(cookies, sc)
          /\ LoginRaise(p, Error("HTTPError", NoBody))
          /\ UNCHANGED sent
     \/ \E sc \in SetCookies, page \in LoginPages :
          /\ cookies' = MergeCookies(cookies, sc)
          /\ form' = [form EXCEPT ![p] =
                        LoginForm(page, GetEnvCredentials(environ))]
          /\ pc' = [pc EXCEPT ![p] = "login_post"]
          /\ sent' = [sent EXCEPT ![p] = Append(@, "POST")]
          /\ UNCHANGED <<SESSION_LOGGED_IN, caller, anag, result, lastLogin>>
  /\ UNCHANGED <<serial, parser, auth, portalToken, outer, environ, req,
                 telaio>>

\* the login POST answers
LoginPostResponse(p) ==
  /\ pc[p] = "login_post"
  /\ \/ /\ LoginRaise(p, Error("ConnectionError", NoBody))
        /\ UNCHANGED cookies
     \/ \E sc \in SetCookies :
          /\ cookies' = MergeCookies(cookies, sc)
          /\ LoginRaise(p, Error("HTTPError", NoBody))
     \/ \E sc \in SetCookies :
          /\ cookies' = MergeCookies(cookies, sc)
          /\ pc' = [pc EXCEPT ![p] = "login_verify"]
          /\ form' = [form EXCEPT ![p] = NoForm]
          /\ UNCHANGED <<SESSION_LOGGED_IN, caller, anag, result, lastLogin>>
  /\ UNCHANGED <<serial, parser, auth, portalToken, outer, environ, req,
                 telaio, sent>>

LoginVerifyFlagNotSet(p) ==
  /\ pc[p] = "login_verify"
  /\ IF MarkerFound(cookies)
     THEN /\ UNCHANGED SESSION_LOGGED_IN
          /\ ReturnFromLogin(p)
          /\ lastLogin' = "ok"
     ELSE /\ LoginRaise(p, Error(MsgLoginFailed, NoBody))
          /\ UNCHANGED sent
  /\ UNCHANGED <<serial, parser, auth, portalToken, outer, cookies, environ,
                 req, telaio>>

LoginVerifyRetryOnce(p) ==
  /\ pc[p] = "login_verify"
  /\ IF MarkerFound(cookies)
     THEN /\ SESSION_LOGGED_IN' = TRUE
          /\ ReturnFromLogin(p)
          /\ lastLogin' = "ok"
     ELSE IF Len(sent[p]) < 3
     THEN /\ pc' = [pc EXCEPT ![p] = "login_get"]
          /\ sent' = [sent EXCEPT ![p] = Append(@, "GET")]
          /\ UNCHANGED <<SESSION_LOGGED_IN, caller, form, anag, result,
                         lastLogin>>
     ELSE /\ LoginRaise(p, Error(MsgLoginFailed, NoBody))
          /\ UNCHANGED sent
  /\ UNCHANGED <<serial, parser, auth, portalToken, outer, cookies, environ,
                 req, telaio>>

\* login_if_needed from the cookie check to its end
LoginVerify(p) ==
  /\ pc[p] = "login_verify"
  /\ IF MarkerFound(cookies)
     THEN /\ SESSION_LOGGED_IN' = TRUE
          /\ ReturnFromLogin(p)
          /\ lastLogin' = "ok"
     ELSE /\ LoginRaise(p, Error(MsgLoginFailed, NoBody))
          /\ UNCHANGED sent
  /\ UNCHANGED <<serial, parser, auth, portalToken, outer, cookies, environ,
                 req, telaio>>

\* the POST of chiamata_anagrafica answers; on success chiamata_copertura
\* is entered
CallAResponse(p) ==
  /\ pc[p] = "callA"
  /\ \/ /\ Raise(p, Error("ConnectionError", NoBody))
        /\ UNCHANGED cookies
     \/ \E sc \in SetCookies :
          /\ cookies' = MergeCookies(cookies, sc)
          /\ Raise(p, Error("HTTPError", NoBody))
     \/ \E sc \in SetCookies, body \in ABodies(serial) :
          /\ cookies' = MergeCookies(cookies, sc)
          /\ LET a == AnagraficaOf(body)
             IN  IF a.ok
                 THEN /\ anag' = [anag EXCEPT ![p] = a]
                      /\ pc' = [pc EXCEPT ![p] = "login_check"]
                      /\ caller' = [caller EXCEPT ![p] = "copertura"]
                      /\ form' = [form EXCEPT ![p] = NoForm]
                      /\ UNCHANGED <<SESSION_LOGGED_IN, result>>
                 ELSE Raise(p, a.err)
  /\ UNCHANGED <<serial, parser, auth, portalToken, outer, environ, req,
                 telaio, sent, lastLogin>>

Success(a, c) ==
  [success |-> TRUE,
   cliente_veicolo |-> a.parsed,
   copertura |-> c.parsed,
   debug |-> [anagrafica_raw |-> a.raw,
              copertura_outer |-> c.raw_outer,
              copertura_inner |-> c.raw_inner]]

\* the POST of chiamata_copertura answers; the handler returns
CallBResponse(p) ==
  /\ pc[p] = "callB"
  /\ \/ /\ Raise(p, Error("ConnectionError", NoBody))
        /\ UNCHANGED <<cookies, outer>>
     \/ \E sc \in SetCookies :
          /\ cookies' = MergeCookies(cookies, sc)
          /\ Raise(p, Error("HTTPError", NoBody))
          /\ UNCHANGED outer
     \/ \E sc \in SetCookies, body \in BBodies(serial) :
          /\ cookies' = MergeCookies(cookies, sc)
          /\ outer' = [outer EXCEPT ![p] =
                         IF body.t = "notjson" THEN NoBody ELSE body]
          /\ LET c == CoperturaOf(body)
             IN  IF c.ok
                 THEN /\ result' = [result EXCEPT ![p] = Success(anag[p], c)]
                      /\ pc' = [pc EXCEPT ![p] = "done"]
                      /\ caller' = [caller EXCEPT ![p] = "none"]
                      /\ anag' = [anag EXCEPT ![p] = NoAnag]
                      /\ form' = [form EXCEPT ![p] = NoForm]
                      /\ UNCHANGED SESSION_LOGGED_IN
                 ELSE Raise(p, c.err)
  /\ UNCHANGED <<serial, parser, auth, portalToken, environ, req, telaio,
                 sent, lastLogin>>

\* the response has been delivered; the worker is free again
Return(p) ==
  /\ pc[p] = "done"
  /\ pc' = [pc EXCEPT ![p] = "idle"]
  /\ req' = [req EXCEPT ![p] = <<>>]
  /\ telaio' = [telaio EXCEPT ![p] = <<>>]
  /\ result' = [result EXCEPT ![p] = NoResult]
  /\ sent' = [sent EXCEPT ![p] = <<>>]
  /\ outer' = [outer EXCEPT ![p] = NoBody]
  /\ UNCHANGED <<serial, parser, auth, portalToken, session, environ, caller,
                 form, anag, lastLogin>>

Step(p) ==
  \/ Receive(p)
  \/ VerificaStart(p)
  \/ LoginIfNeeded(p)
  \/ LoginGetResponse(p)
  \/ LoginPostResponse(p)
  \/ LoginVerify(p)
  \/ CallAResponse(p)
  \/ CallBResponse(p)
  \/ Return(p)

Next == \E p \in Workers : Step(p)

Spec == Init /\ [][Next]_vars

\* one request at a time, over the wide range of portal answers
SpecSeq == InitSeq /\ [][Next]_vars

\* the steps of worker p's handler between the arrival of a request and its
\* return
Handler(p) ==
  \/ VerificaStart(p)
  \/ LoginIfNeeded(p)
  \/ LoginGetResponse(p)
  \/ LoginPostResponse(p)
  \/ LoginVerify(p)
  \/ CallAResponse(p)
  \/ CallBResponse(p)

\* parser.feed(html), one start tag at a time
ParserHandleStarttag ==
  /\ fed < Len(html)
  /\ hidden_inputs' = HandleStartTag(hidden_inputs, html[fed + 1])
  /\ fed' = fed + 1
  /\ UNCHANGED <<html, process, auth>>

NextParser == ParserHandleStarttag

\* a HiddenInputsParser fed every page of the bounded set
SpecParser == InitParser /\ [][NextParser]_vars

(* ------------------------- auth.py: get_auth ------------------------- *)

MsgAuthNoCredentials ==
  "Credenziali non trovate: imposta le variabili d'ambiente FORD_USERNAME e FORD_PASSWORD."
MsgAuthLoginFailed ==
  "Login non riuscito: cookie 'joomla_user_state=logged_in' non trovato. Controlla username/password o eventuali cambi nel form di login."

\* the running authenticate call ends in an exception
AuthRaise(msg) ==
  /\ auth_pc' = "raised"
  /\ auth_err' = msg
  /\ auth_form' = NoForm
  /\ UNCHANGED logged_flag

\* authenticate(sess) is called, up to the GET of the login page
Authenticate(sess) ==
  /\ auth_pc = "idle"
  /\ auth_sess' = sess
  /\ IF logged_flag
     THEN /\ auth_pc' = "returned"
          /\ UNCHANGED <<logged_flag, auth_form, auth_err>>
     ELSE IF ~GetEnvCredentials(environ).ok
     THEN AuthRaise(MsgAuthNoCredentials)
     ELSE /\ auth_pc' = "get"
          /\ UNCHANGED <<logged_flag, auth_form, auth_err>>
  /\ UNCHANGED <<jars, process, parser>>

\* sess.get answers; the login POST is issued on sess
AuthGetResponse ==
  /\ auth_pc = "get"
  /\ \/ /\ AuthRaise("ConnectionError")
        /\ UNCHANGED jars
     \/ \E sc \in SetCookies :
          /\ jars' = [jars EXCEPT ![auth_sess] = MergeCookies(@, sc)]
          /\ AuthRaise("HTTPError")
     \/ \E sc \in SetCookies, page \in LoginPages :
          /\ jars' = [jars EXCEPT ![auth_sess] = MergeCookies(@, sc)]
          /\ auth_form' = LoginForm(page, GetEnvCredentials(environ))
          /\ auth_pc' = "post"
          /\ UNCHANGED <<logged_flag, auth_err>>
  /\ UNCHANGED <<auth_sess, process, parser>>

\* sess.post answers
AuthPostResponse ==
  /\ auth_pc = "post"
  /\ \/ /\ AuthRaise("ConnectionError")
        /\ UNCHANGED jars
     \/ \E sc \in SetCookies :
          /\ jars' = [jars EXCEPT ![auth_sess] = MergeCookies(@, sc)]
          /\ AuthRaise("HTTPError")
     \/ \E sc \in SetCookies :
          /\ jars' = [jars EXCEPT ![auth_sess] = MergeCookies(@, sc)]
          /\ auth_pc' = "verify"
          /\ auth_form' = NoForm
          /\ UNCHANGED <<logged_flag, auth_err>>
  /\ UNCHANGED <<auth_sess, process, parser>>

\* authenticate from the cookie check to its end
AuthVerify ==
  /\ auth_pc = "verify"
  /\ IF MarkerFound(jars[auth_sess])
     THEN /\ logged_flag' = TRUE
          /\ auth_pc' = "returned"
          /\ UNCHANGED <<auth_form, auth_err>>
     ELSE AuthRaise(MsgAuthLoginFailed)
  /\ UNCHANGED <<jars, auth_sess, process, parser>>

\* the caller goes on after the call returned or raised
AuthCallerResumes ==
  /\ auth_pc \in {"returned", "raised"}
  /\ auth_pc' = "idle"
  /\ auth_err' = ""
  /\ UNCHANGED <<logged_flag, jars, auth_sess, auth_form, process, parser>>

NextAuth ==
  \/ \E sess \in Sessions : Authenticate(sess)
  \/ AuthGetResponse
  \/ AuthPostResponse
  \/ AuthVerify
  \/ AuthCallerResumes

\* every sequence of authenticate calls on the pair of one get_auth
SpecAuth == InitAuth /\ [][NextAuth]_vars

\* SpecSeq with the scheduling the code relies on: a handler that can take
\* a step eventually takes it (its thread keeps running, and every request
\* it waits for carries a timeout, so it is answered or fails)
SpecSeqLive == SpecSeq /\ \A p \in Workers : WF_vars(Handler(p))

(* ------------------------------ properties ---------------------------- *)

\* worker p is inside the login network sequence
InLogin(p) == pc[p] \in {"login_get", "login_post", "login_verify"}

\* the step makes worker p start the login protocol
StartsLogin(p) == pc[p] = "login_check" /\ pc'[p] = "login_get"

\* the text is empty or made of whitespace only
IsBlank(s) == \A i \in 1..Len(s) : s[i] \in WhiteSpace

\* the jar holds a cookie named exactly joomla_user_state whose value is
\* exactly logged_in
HasMarkerCookie(jar) ==
  CookieJ \in DOMAIN jar /\ jar[CookieJ] = ValueLoggedIn

Failed(p) == pc[p] = "done" /\ ~result[p].success
FailedWith(p, msg) == Failed(p) /\ result[p].error.msg = msg

\* C1: while the session is not yet authenticated, at most one of the
\* concurrent requests is inside the login network sequence (GET of the
\* login page, POST of the credentials, cookie check).
C1_LoginMutualExclusion ==
  \A p, q \in Workers : (p # q) => ~(InLogin(p) /\ InLogin(q))

\* C2: once the session is authenticated, a call of login_if_needed is a
\* no-op: it returns to its caller, which issues its own POST, without a
\* GET of the login page or a login POST, and the flag stays true.
C2_LaterLoginCallsAreNoOps ==
  [][ /\ SESSION_LOGGED_IN => SESSION_LOGGED_IN'
      /\ \A p \in Workers :
           (SESSION_LOGGED_IN /\ pc[p] = "login_check"
              /\ pc'[p] # "login_check")
           => /\ pc'[p] = (IF caller[p] = "anagrafica" THEN "callA"
                           ELSE "callB")
              /\ sent'[p] = Append(sent[p], IF caller[p] = "anagrafica"
                                            THEN "A" ELSE "B")
              /\ cookies' = cookies
              /\ lastLogin' = lastLogin ]_vars

\* a lookup accepted after the login went through login_if_needed without
\* any login request and has its Call A in flight
C2_Witness ==
  \E p \in Workers :
    SESSION_LOGGED_IN /\ pc[p] = "callA" /\ sent[p] = <<"A">>

\* C3 as stated: over a sequence of lookups the login protocol is started
\* at most once, failed attempts included.
C3_LoginStartedAtMostOnce == lastLogin # "again"

\* C3 as amended: over a sequence of lookups served one at a time, the
\* login protocol is started only while no attempt has succeeded: by the
\* first lookup that needs it, and by a later one only after a failed
\* attempt; once an attempt has succeeded it is never started again.
C3_LoginRestartedOnlyAfterFailure ==
  [][ \A p \in Workers :
        StartsLogin(p) => /\ lastLogin \in {"never", "failed"}
                          /\ ~SESSION_LOGGED_IN ]_vars

\* a second login protocol is running, after the first one failed
C3_Witness ==
  \E p \in Workers : lastLogin = "again" /\ pc[p] = "login_post"

\* C4: a login attempt ends with the session marked authenticated exactly
\* when the jar holds the cookie joomla_user_state=logged_in (name and
\* value exact); for any other jar it ends in the login failure and the
\* flag stays false.
C4_ExactMarkerDecidesLogin ==
  [][ \A p \in Workers :
        (pc[p] = "login_verify" /\ pc'[p] # "login_verify")
        => IF HasMarkerCookie(cookies)
           THEN SESSION_LOGGED_IN' /\ pc'[p] # "done"
           ELSE /\ ~SESSION_LOGGED_IN'
                /\ pc'[p] = "done"
                /\ result'[p] = Failure(Error(MsgLoginFailed, NoBody)) ]_vars

\* C5: whenever the flag is true the jar holds the logged-in marker (read
\* with the code's own test, the weakest reading of "contains the marker").
C5_FlagImpliesMarker == SESSION_LOGGED_IN => MarkerFound(cookies)

\* the orders in which one lookup may issue its portal requests
StageOrders ==
  { <<>>, <<"GET">>, <<"GET", "POST">>, <<"GET", "POST", "A">>,
    <<"GET", "POST", "A", "B">>, <<"A">>, <<"A", "B">> }

Range(f) == {f[i] : i \in DOMAIN f}

\* C6: a lookup issues its requests in the order login (if needed), Call
\* A, Call B; Call B is sent only after Call A was answered with a truthy
\* status, and a lookup that Call A ended (rejection or any other failure)
\* never sends Call B.
C6_StagesInOrderAndAbort ==
  /\ \A p \in Workers :
       /\ sent[p] \in StageOrders
       /\ "B" \in Range(sent[p]) /\ pc[p] = "callB"
            => anag[p].ok /\ PyTruthy(GetOrNone(anag[p].raw.status))
       /\ FailedWith(p, MsgAnagraficaRejected) => "B" \notin Range(sent[p])

\* a lookup logged in, had Call A rejected and ended without Call B
C6_Witness ==
  \E p \in Workers :
    FailedWith(p, MsgAnagraficaRejected) /\ sent[p] = <<"GET", "POST", "A">>

\* C7: a failure of Call A or Call B leaves the cached authentication
\* alone: the flag was true, is still true after the failing step and stays
\* true while the failure is reported, so the next lookup's login_if_needed
\* finds it set.
C7_CallFailureKeepsAuthentication ==
  /\ [](\A p \in Workers :
          (Failed(p) /\ sent[p] # <<>> /\ sent[p][Len(sent[p])] \in {"A", "B"})
          => SESSION_LOGGED_IN)
  /\ [][ \A p \in Workers :
           (pc[p] \in {"callA", "callB"} /\ pc'[p] = "done"
              /\ ~result'[p].success)
           => /\ SESSION_LOGGED_IN /\ SESSION_LOGGED_IN'
              /\ lastLogin' = lastLogin ]_vars

\* a lookup that found the session authenticated failed in Call B
C7_Witness ==
  \E p \in Workers :
    /\ FailedWith(p, MsgCoperturaRejected)
    /\ sent[p] = <<"A", "B">>
    /\ SESSION_LOGGED_IN

\* C8: a request whose chassis text is empty or whitespace only is
\* answered with the "Telaio mancante" failure, without any portal request
\* and without touching the session.
C8_BlankTelaioRejectedOffline ==
  /\ [](\A p \in Workers :
          (pc[p] \notin {"idle", "recv"} /\ IsBlank(req[p]))
          => /\ pc[p] = "done"
             /\ result[p] = Failure(Error(MsgNoTelaio, NoBody))
             /\ sent[p] = <<>>)
  /\ [][ \A p \in Workers :
           (pc[p] = "recv" /\ IsBlank(req[p]) /\ pc'[p] # "recv")
           => /\ SESSION_LOGGED_IN' = SESSION_LOGGED_IN
              /\ cookies' = cookies
              /\ lastLogin' = lastLogin ]_vars

\* a whitespace-only chassis text was rejected
C8_Witness ==
  \E p \in Workers :
    /\ req[p] = <<" ">>
    /\ FailedWith(p, MsgNoTelaio)
    /\ sent[p] = <<>>

\* a credential is unset, empty or whitespace only
CredentialsAbsent ==
  \E n \in EnvNames : n \notin DOMAIN environ \/ IsBlank(environ[n])

\* C9: with a credential absent, every lookup that passes the chassis
\* check ends in the same missing-credentials failure, no lookup issues a
\* portal request or succeeds, and the session is never authenticated.
C9_MissingCredentialsFailEveryLookup ==
  CredentialsAbsent =>
    /\ ~SESSION_LOGGED_IN
    /\ \A p \in Workers :
         /\ sent[p] = <<>>
         /\ pc[p] \in {"idle", "recv", "login_check", "done"}
         /\ (pc[p] = "done" /\ telaio[p] # <<>>)
              => result[p] = Failure(Error(MsgNoCredentials, NoBody))

\* the password is whitespace only and a lookup for chassis "V" failed
C9_Witness ==
  /\ "FORD_USERNAME" \in DOMAIN environ /\ environ["FORD_USERNAME"] = <<"u">>
  /\ "FORD_PASSWORD" \in DOMAIN environ /\ environ["FORD_PASSWORD"] = <<" ">>
  /\ \E p \in Workers :
       req[p] = <<"V">> /\ FailedWith(p, MsgNoCredentials)

\* the falsy forms of the status field named by the specification
FalsyForm(v) ==
  v \in {Missing, JNull, JFalse, "0", "\"\"", "\"false\"", "\"0\""}

\* C10: no response of Call A or Call B whose status is a falsy form is
\* treated as a success: Call B is not entered on such a Call A body, and
\* no successful result rests on such a body.
C10_FalsyStatusNeverSucceeds ==
  \A p \in Workers :
    /\ anag[p].ok => ~FalsyForm(anag[p].raw.status)
    /\ (pc[p] = "done" /\ result[p].success)
         => /\ ~FalsyForm(result[p].debug.anagrafica_raw.status)
            /\ ~FalsyForm(result[p].debug.copertura_outer.status)

\* the body has a truthy status and a data field that is not a decodable
\* JSON text: not a string, or a string (absent counts as empty) that
\* json.loads rejects
DataUndecodable(body) ==
  /\ body.t = "dict"
  /\ PyTruthy(GetOrNone(body.status))
  /\ \/ body.data.t \notin {"missing", "str"}
     \/ ~JsonLoads(body.data.text).ok

\* s is the text t cut to at most n characters
IsPreviewOf(s, t, n) ==
  /\ Len(s) <= n
  /\ Len(s) <= Len(t)
  /\ s = SubSeq(t, 1, Len(s))
  /\ Len(t) <= n => s = t

\* C11: a lookup whose Call B body has a truthy status and an undecodable
\* data field (invalid JSON text, empty, absent, or not a string) ends in
\* the inner-decode failure, whose message carries the data cut to at most
\* 200 characters; it never ends in a success.
C11_UndecodableDataIsMalformed ==
  \A p \in Workers :
    (pc[p] = "done" /\ DataUndecodable(outer[p]))
    => /\ ~result[p].success
       /\ result[p].error.msg = MsgInnerUndecodable
       /\ result[p].error.body.t = "preview"
       /\ IsPreviewOf(result[p].error.body.data.text, outer[p].data.text,
                      PreviewLen)

\* the WARRANTY_LIST of a decoded inner document, absent and null read as
\* empty
WarrantyItems(inner) ==
  IF inner.Data.WARRANTY_LIST.t = "list"
  THEN inner.Data.WARRANTY_LIST.items ELSE <<>>

\* the Call B body carries a truthy status and a data text that decodes to
\* an object
DecodesToObject(body) ==
  /\ body.t = "dict"
  /\ PyTruthy(GetOrNone(body.status))
  /\ body.data.t = "str"
  /\ JsonLoads(body.data.text).ok
  /\ JsonLoads(body.data.text).t = "dict"

\* C12: the coverage record of a successful lookup carries HAS_WARRANTY of
\* the Data section; with WARRANTY_LIST absent, null or empty it carries
\* nothing else, and such a document always gives a success; with a
\* non-empty list every detail field of the record is the first element's
\* (null where the element lacks the key) and every key of the first
\* element that is a detail field is in the record.
C12_CoverageFromFirstElement ==
  \A p \in Workers :
    /\ (pc[p] = "done" /\ result[p].success) =>
         LET inner == result[p].debug.copertura_inner
             rec   == result[p].copertura
             items == WarrantyItems(inner)
         IN  /\ "HAS_WARRANTY" \in DOMAIN rec
             /\ rec["HAS_WARRANTY"] = GetOrNone(inner.Data.HAS_WARRANTY)
             /\ DOMAIN rec \subseteq {"HAS_WARRANTY"} \cup DetailKeys
             /\ items = <<>> => DOMAIN rec = {"HAS_WARRANTY"}
             /\ items # <<>> =>
                  /\ items[1].t = "dict"
                  /\ \A k \in DOMAIN rec \ {"HAS_WARRANTY"} :
                       rec[k] = ObjGet(items[1].obj, k)
                  /\ \A k \in DOMAIN items[1].obj \cap DetailKeys :
                       k \in DOMAIN rec
    /\ (pc[p] = "done" /\ DecodesToObject(outer[p])
          /\ WarrantyItems(JsonLoads(outer[p].data.text)) = <<>>)
       => result[p].success

\* a lookup succeeded on a list of two elements: the record has the first
\* element's VIN and no DEALER_CODE, which only the second element has
C12_Witness ==
  \E p \in Workers :
    /\ pc[p] = "done" /\ result[p].success
    /\ outer[p].data.text = TextTwoWarranties
    /\ result[p].copertura["VIN"] = "\"X1\""
    /\ result[p].copertura["DEALER_CODE"] = JNull

\* the fields of a call's form_data other than its routing fields and the
\* chassis: the anti-forgery fields it sends
TokenFieldsOf(f) ==
  DOMAIN f \ {"option", "view", "task", "format", "jform[telaio]", "telaio"}

\* C13: the anti-forgery field a Call A or Call B request carries is the
\* (name, value) pair of the hidden input of the portal's warranty page, as
\* discovered after login, and not a field whose name is fixed in advance.
C13_CallsCarryDiscoveredToken ==
  \A p \in Workers :
    pc[p] \in {"callA", "callB"}
    => /\ TokenFieldsOf(form[p]) = {portalToken.name}
       /\ form[p][portalToken.name] = portalToken.value

\* result r is a success with its records or a failure with a message
IsOneResult(r) ==
  IF r.success
  THEN DOMAIN r = {"success", "cliente_veicolo", "copertura", "debug"}
  ELSE /\ DOMAIN r = {"success", "error"}
       /\ r.error.msg \notin {"", "<pending>"}

\* C14: every request a handler has received leads to the handler's
\* return; the handler returns a success or a failure with a message, and
\* produces its result in one step, at its return, and no other.
C14_EveryLookupReturnsOneResult ==
  /\ \A p \in Workers : (pc[p] = "recv") ~> (pc[p] = "done")
  /\ [](\A p \in Workers :
          /\ pc[p] = "done" => IsOneResult(result[p])
          /\ pc[p] # "done" => result[p] = NoResult)
  /\ [][ \A p \in Workers :
           result'[p] # result[p]
           => \/ pc[p] \notin {"idle", "done"} /\ pc'[p] = "done"
              \/ pc[p] = "done" /\ pc'[p] = "idle" ]_vars

\* a lookup whose Call B data field was a number ended in a failure that
\* carries the TypeError
C14_Witness ==
  \E p \in Workers :
    /\ pc[p] = "done"
    /\ outer[p].t = "dict" /\ outer[p].data.t = "num"
    /\ result[p] = Failure(Error("TypeError", NoBody))

\* how many times request x was issued in the sequence
Count(seq, x) == Cardinality({i \in DOMAIN seq : seq[i] = x})

\* C15: within one lookup each of the four portal requests is issued at
\* most once, and a step of the lookup that ends in a failure, or follows
\* one, issues no request.
C15_NoOperationRetried ==
  /\ [](\A p \in Workers :
          \A x \in {"GET", "POST", "A", "B"} : Count(sent[p], x) <= 1)
  /\ [][ \A p \in Workers :
           (Len(sent'[p]) > Len(sent[p]))
           => (pc[p] # "done" /\ pc'[p] # "done") ]_vars

\* a lookup whose login failed on the cookie check ended after one GET and
\* one POST
C15_Witness ==
  \E p \in Workers :
    FailedWith(p, MsgLoginFailed) /\ sent[p] = <<"GET", "POST">>

\* start tag t has attribute a (the tags of PageTags repeat no attribute)
HasAttr(t, a) == \E j \in DOMAIN t.attrs : t.attrs[j][1] = a
AttrOf(t, a) ==
  t.attrs[CHOOSE j \in DOMAIN t.attrs : t.attrs[j][1] = a][2]

\* t is an input element of type "hidden" with a non-empty name
IsNamedHiddenInput(t) ==
  /\ t.tag \in {"input", "INPUT"}
  /\ HasAttr(t, "type") /\ AttrOf(t, "type") = "hidden"
  /\ HasAttr(t, "name") /\ AttrOf(t, "name") \notin {"", NoValue}

\* C16: once a page has been fed, the parser's mapping has as keys exactly
\* the names of the page's named hidden inputs, each mapped to the value of
\* the last such input with that name ("" when it has no value attribute);
\* a page without any gives the empty mapping.
C16_HiddenInputsAreLastNamedHidden ==
  fed = Len(html) =>
    LET named == {i \in DOMAIN html : IsNamedHiddenInput(html[i])}
        last(k) == CHOOSE i \in named :
                     /\ AttrOf(html[i], "name") = k
                     /\ \A j \in named :
                          AttrOf(html[j], "name") = k => j <= i
    IN  /\ DOMAIN hidden_inputs = {AttrOf(html[i], "name") : i \in named}
        /\ \A k \in DOMAIN hidden_inputs :
             hidden_inputs[k] = IF HasAttr(html[last(k)], "value")
                                THEN AttrOf(html[last(k)], "value")
                                ELSE ""
        /\ named = {} => hidden_inputs = EmptyDict

\* a page with two hidden inputs named t, of values 1 and then 2, followed
\* by a text input named t, was fed: t is mapped to 2
C16_Witness ==
  /\ Len(html) = 3 /\ fed = 3
  /\ \A i \in 1..2 : IsNamedHiddenInput(html[i])
                       /\ AttrOf(html[i], "name") = "t"
  /\ AttrOf(html[1], "value") = "1" /\ AttrOf(html[2], "value") = "2"
  /\ HasAttr(html[3], "type") /\ AttrOf(html[3], "type") = "text"
  /\ hidden_inputs = [k \in {"t"} |-> "2"]

\* the step makes worker p send its Call A or Call B request
SendsCall(p) ==
  /\ Len(sent'[p]) = Len(sent[p]) + 1
  /\ sent'[p][Len(sent'[p])] \in {"A", "B"}

\* C17: a Call A or Call B request is sent, and is in flight, only with the
\* flag true, under every interleaving of the workers; and the flag becomes
\* true only in the step that ends a login protocol (GET and POST issued by
\* that worker) on a jar in which the code finds the marker.
C17_NoCallBeforeLogin ==
  /\ [](\A p \in Workers : pc[p] \in {"callA", "callB"} => SESSION_LOGGED_IN)
  /\ [][ /\ \A p \in Workers : SendsCall(p) => SESSION_LOGGED_IN'
         /\ (~SESSION_LOGGED_IN /\ SESSION_LOGGED_IN')
              => \E p \in Workers :
                   /\ pc[p] = "login_verify" /\ pc'[p] # "login_verify"
                   /\ SubSeq(sent[p], 1, 2) = <<"GET", "POST">>
                   /\ MarkerFound(cookies) ]_vars

\* both workers have a call in flight: one logged in itself, the other
\* found the flag set
C17_Witness ==
  \E p, q \in Workers :
    /\ pc[p] = "callB" /\ sent[p] = <<"GET", "POST", "A", "B">>
    /\ pc[q] = "callA" /\ sent[q] = <<"A">>
    /\ SESSION_LOGGED_IN

\* the lookup's last two requests were Call A and Call B
BothCallsSent(p) ==
  /\ Len(sent[p]) >= 2
  /\ SubSeq(sent[p], Len(sent[p]) - 1, Len(sent[p])) = <<"A", "B">>

\* C18: a returned result is a success exactly when every stage went
\* through: a success has had both calls sent and holds the identity record
\* and raw payload of its Call A body and the coverage record and raw
\* payloads of its Call B body; a failure holds its error and nothing else
\* (no identity data, also when Call A had succeeded); and a lookup whose
\* Call B body went through normalization is a success.
C18_ResultAllOrNothing ==
  \A p \in Workers :
    pc[p] = "done" =>
      IF result[p].success
      THEN /\ BothCallsSent(p)
           /\ DOMAIN result[p] =
                {"success", "cliente_veicolo", "copertura", "debug"}
           /\ LET a == AnagraficaOf(result[p].debug.anagrafica_raw)
                  c == CoperturaOf(outer[p])
              IN  /\ a.ok /\ c.ok
                  /\ result[p].cliente_veicolo = a.parsed
                  /\ result[p].copertura = c.parsed
                  /\ result[p].debug.copertura_outer = outer[p]
                  /\ result[p].debug.copertura_inner = c.raw_inner
      ELSE /\ DOMAIN result[p] = {"success", "error"}
           /\ DOMAIN result[p].error = {"msg", "body"}
           /\ BothCallsSent(p)
                => \/ result[p].error.body \in {NoBody, outer[p]}
                   \/ result[p].error.body.t = "preview"
           /\ (BothCallsSent(p) /\ outer[p] # NoBody)
                => ~CoperturaOf(outer[p]).ok

\* a lookup logged in, had Call A accepted and Call B rejected: its result
\* is the failure alone
C18_Witness ==
  \E p \in Workers :
    /\ sent[p] = <<"GET", "POST", "A", "B">>
    /\ result[p] = Failure(Error(MsgCoperturaRejected, outer[p]))
    /\ pc[p] = "done"

\* C19: whenever a call authenticate(sess) has returned without raising,
\* the jar of the session it was given holds the logged-in marker (read
\* with the code's own test), whichever session earlier calls were given.
C19_ReturnMeansSessionLoggedIn ==
  auth_pc = "returned" => MarkerFound(jars[auth_sess])

====
